---------------------------- MODULE Spec2Model ----------------------------
(***************************************************************************)
(* Model of MarcXML_2_RIS/Thesis_MarcXML_2_RIS.py: the MARC -> RIS         *)
(* pipeline (Field Mapper -> temporary.ris -> splitter -> per-record       *)
(* cleaning -> M3 canonicalization -> export_2_zotero.ris).                *)
(*                                                                         *)
(* A Python str is modelled as a sequence of Unicode code points, so that  *)
(* prefix tests, slicing, stripping, lexicographic sorting and NFC         *)
(* composition are computed character by character as Python computes      *)
(* them.  A file is the sequence of code points written to it.             *)
(***************************************************************************)
EXTENDS Integers, Sequences, FiniteSets, TLC

(***************************************************************************)
(* Bounds of the model.                                                    *)
(***************************************************************************)
\* largest number of SourceRecords in MarcXML_input.xml
MaxRecords == 2

(***************************************************************************)
(* str primitives                                                          *)
(***************************************************************************)
\* the characters str.strip() / str.split() treat as whitespace
Whitespace == {9, 10, 11, 12, 13, 28, 29, 30, 31, 32, 133, 160}

\* s.startswith(p)
StartsWith(s, p) == Len(s) >= Len(p) /\ SubSeq(s, 1, Len(p)) = p

\* s.startswith(ps) for a tuple ps of prefixes
StartsWithAny(s, ps) == \E k \in 1..Len(ps) : StartsWith(s, ps[k])

\* p in s
Contains(s, p) ==
    \E k \in 1..(Len(s) - Len(p) + 1) : SubSeq(s, k, k + Len(p) - 1) = p

RECURSIVE rstrip(_, _)
\* s.rstrip(chars): drop every trailing character that is in chars
rstrip(s, chars) ==
    IF s # <<>> /\ s[Len(s)] \in chars
    THEN rstrip(SubSeq(s, 1, Len(s) - 1), chars)
    ELSE s

RECURSIVE lstrip(_, _)
\* s.lstrip(chars)
lstrip(s, chars) ==
    IF s # <<>> /\ s[1] \in chars THEN lstrip(Tail(s), chars) ELSE s

\* s.strip(chars); s.strip() is strip(s, Whitespace)
strip(s, chars) == lstrip(rstrip(s, chars), chars)

RECURSIVE replace(_, _, _)
\* s.replace(old, new) for a non-empty old: leftmost non-overlapping matches
replace(s, old, new) ==
    IF Len(s) < Len(old) THEN s
    ELSE IF StartsWith(s, old)
         THEN new \o replace(SubSeq(s, Len(old) + 1, Len(s)), old, new)
         ELSE <<s[1]>> \o replace(Tail(s), old, new)

RECURSIVE join(_, _)
\* sep.join(strs)
join(sep, strs) ==
    IF strs = <<>> THEN <<>>
    ELSE IF Len(strs) = 1 THEN strs[1]
    ELSE strs[1] \o sep \o join(sep, Tail(strs))

RECURSIVE Flatten(_)
\* concatenation of a sequence of lists (the appends of a loop, in order)
Flatten(ls) == IF ls = <<>> THEN <<>> ELSE Head(ls) \o Flatten(Tail(ls))

\* len(s.split()): the number of maximal runs of non-whitespace characters
word_count(s) ==
    Cardinality({k \in 1..Len(s) :
        s[k] \notin Whitespace /\ (k = 1 \/ s[k - 1] \in Whitespace)})

\* s < t for Python str: lexicographic by code point
StrLess(s, t) ==
    \E k \in 1..(Len(s) + 1) :
        /\ k <= Len(t)
        /\ SubSeq(s, 1, k - 1) = SubSeq(t, 1, k - 1)
        /\ (k = Len(s) + 1 \/ s[k] < t[k])

RECURSIVE sorted(_)
\* sorted(S) for a set S of str
sorted(S) ==
    IF S = {} THEN <<>>
    ELSE LET m == CHOOSE x \in S : \A y \in S \ {x} : StrLess(x, y)
         IN  <<m>> \o sorted(S \ {m})

\* set(l) for a list l
set(l) == {l[k] : k \in 1..Len(l)}

(***************************************************************************)
(* unicodedata.normalize("NFC", s), on the characters the model uses: a    *)
(* base letter followed by a combining mark composes into the precomposed  *)
(* letter when Unicode defines one.                                        *)
(***************************************************************************)
\* (base, combining mark) -> precomposed: e+acute, e+grave, i+circumflex,
\* a+grave, h+diaeresis
Composite(b, m) ==
    CASE b = 101 /\ m = 769 -> 233
      [] b = 101 /\ m = 768 -> 232
      [] b = 105 /\ m = 770 -> 238
      [] b = 97  /\ m = 768 -> 224
      [] b = 104 /\ m = 776 -> 7719
      [] OTHER -> 0

\* Every base letter of Composite is a starter and every second argument a
\* combining mark, so a mark composes with the letter right before it and
\* with nothing else.
NFC(s) ==
    LET Absorbed(k) == k > 1 /\ Composite(s[k - 1], s[k]) # 0
        Composed(k) == IF k < Len(s) /\ Composite(s[k], s[k + 1]) # 0
                       THEN Composite(s[k], s[k + 1])
                       ELSE s[k]
        Kept(c) == c # 0
    IN  SelectSeq([k \in 1..Len(s) |-> IF Absorbed(k) THEN 0 ELSE Composed(k)],
                  Kept)

\* the lines a text-mode file yields, each with its "\n" removed (line 251)
RECURSIVE readlines(_)
readlines(text) ==
    IF text = <<>> THEN <<>>
    ELSE IF \E k \in 1..Len(text) : text[k] = 10
         THEN LET k == CHOOSE j \in 1..Len(text) :
                          text[j] = 10 /\ \A h \in 1..(j - 1) : text[h] # 10
              IN  <<SubSeq(text, 1, k - 1)>>
                    \o readlines(SubSeq(text, k + 1, Len(text)))
         ELSE <<text>>

(***************************************************************************)
(* Field Mapper (lines 60-229).  A SourceRecord is a sequence of fields    *)
(*   [tag |-> "245", data |-> <<..>>, subfields |-> <<[code, value], ..>>] *)
(* as pymarc yields them: data is the text of a control field, subfields   *)
(* the (code, value) pairs of a data field.                                *)
(***************************************************************************)
\* "TY  - THES"
TY_THES == <<84,89,32,32,45,32,84,72,69,83>>
\* "CY  - Montréal"
CY_Montreal == <<67,89,32,32,45,32,77,111,110,116,114,233,97,108>>
\* "PB  - Université de Montréal"
PB_UdeM == <<80,66,32,32,45,32,85,110,105,118,101,114,115,105,116,233,32,100,101,32,77,111,110,116,114,233,97,108>>
\* "ER  - \n" (the literal ends with a newline)
ER_entry == <<69,82,32,32,45,32,10>>
\* "LA  - Français"
LA_Francais == <<76,65,32,32,45,32,70,114,97,110,231,97,105,115>>
\* "LA  - Anglais"
LA_Anglais == <<76,65,32,32,45,32,65,110,103,108,97,105,115>>

\* the f-string prefix "XX  - " of an output tag XX given by its two letters
Tag(c1, c2) == <<c1, c2, 32, 32, 45, 32>>

\* field.get_subfields(*codes): the values of the sub-fields with one of the
\* codes, in field order
get_subfields(field, codes) ==
    LET Wanted(sf) == sf.code \in codes
        sel == SelectSeq(field.subfields, Wanted)
    IN  [k \in 1..Len(sel) |-> sel[k].value]

\* record.get_fields(tag)
get_fields(record, tag) ==
    LET Wanted(fd) == fd.tag = tag
    IN  SelectSeq(record, Wanted)

\* str(field) of a control field: "=TAG  " + data, blanks shown as "\"
ControlFieldStr(tagdigits, field) ==
    <<61>> \o tagdigits \o <<32, 32>>
       \o [k \in 1..Len(field.data) |->
              IF field.data[k] = 32 THEN 92 ELSE field.data[k]]

\* the title of a 245 / 880 field (lines 74, 80)
Title(field) == strip(join(<<32>>, get_subfields(field, {"a", "b"})), {32, 47})

\* the author clean-up of tags 100 / 700 (lines 94-95, 101-102)
CleanAuthor(author) == rstrip(rstrip(author, {44}), {46})

\* the degree / note clean-up of tags 502, 500, 490 (lines 134-135)
CleanNote(sn) == rstrip(replace(sn, <<34>>, <<>>), {46})

\* the date clean-up of sub-field d of tags 502 / 500 (lines 138-140)
CleanDate(sm) == rstrip(rstrip(rstrip(sm, {32}), {46}), {58})

\* IsNoteLink looking at every sub-field 6 instead of the first
IsNoteLink_AnyLink(field) ==
    LET link == get_subfields(field, {"6"})
    IN  \E k \in 1..Len(link) : \/ StartsWith(link[k], <<53,48,48>>)
                                \/ StartsWith(link[k], <<53,50,48>>)

\* the test of lines 81-82: the first sub-field 6 starts with "500" or "520"
IsNoteLink(field) ==
    LET link == get_subfields(field, {"6"})
    IN  link # <<>> /\ (StartsWith(link[1], <<53,48,48>>)
                         \/ StartsWith(link[1], <<53,50,48>>))

\* LanguageEntries with elif for the second if: one LA line at most
LanguageEntries_ElseIf(sn) ==
    IF Contains(sn, <<102,114,101>>) THEN <<LA_Francais>>
    ELSE IF Contains(sn, <<101,110,103>>) THEN <<LA_Anglais>>
    ELSE <<>>

\* the LA lines of one language sub-field value (lines 191-194, 199-202)
LanguageEntries(sn) ==
    (IF Contains(sn, <<102,114,101>>) THEN <<LA_Francais>> ELSE <<>>)
      \o (IF Contains(sn, <<101,110,103>>) THEN <<LA_Anglais>> ELSE <<>>)

\* the page count clean-up of tag 300 (lines 182-184)
CleanPages(sn) ==
    LET s == rstrip(rstrip(sn, {58}), {43})
    IN  IF Contains(s, <<114,101,115,115,111,117,114,99,101>>) THEN <<>> ELSE s

\* the entries one field appends to ris_entries: the if / elif chain of
\* lines 73-212, in source order
FieldEntries(record, field) ==
    LET tag == field.tag
        a == get_subfields(field, {"a"})
        d == get_subfields(field, {"d"})
        Each(prefix, vals) == [k \in 1..Len(vals) |-> prefix \o vals[k]]
    IN
    IF tag = "245" THEN
        <<Tag(84, 73) \o rstrip(Title(field), {46})>>
    ELSE IF tag = "880" THEN
        IF IsNoteLink(field)
        THEN Each(Tag(65, 66), a)
        ELSE <<Tag(84, 73) \o rstrip(Title(field), {46})>>
    ELSE IF tag = "100" THEN
        Each(Tag(65, 85), [k \in 1..Len(a) |-> CleanAuthor(a[k])])
    ELSE IF tag = "700" THEN
        Each(Tag(65, 51), [k \in 1..Len(a) |-> CleanAuthor(a[k])])
    ELSE IF tag = "650" THEN
        Each(Tag(75, 87), [k \in 1..Len(a) |-> rstrip(a[k], {46})])
    ELSE IF tag \in {"020", "022"} THEN
        Each(Tag(83, 78), a)
    ELSE IF tag = "260" THEN
        LET c == get_subfields(field, {"c"})
        IN  Each(Tag(68, 65), [k \in 1..Len(c) |-> rstrip(c[k], {46})])
    ELSE IF tag = "260" THEN
        Each(Tag(67, 89), a)
    ELSE IF tag = "502" THEN
        Each(Tag(77, 51), [k \in 1..Len(a) |-> CleanNote(a[k])])
          \o Each(Tag(68, 65), [k \in 1..Len(d) |-> CleanDate(d[k])])
    ELSE IF tag = "500" THEN
        Each(Tag(65, 78), [k \in 1..Len(a) |-> CleanNote(a[k])])
          \o Each(Tag(68, 65), [k \in 1..Len(d) |-> CleanDate(d[k])])
    ELSE IF tag = "490" THEN
        Each(Tag(77, 51), [k \in 1..Len(a) |-> CleanNote(a[k])])
    ELSE IF tag = "999" THEN
        Each(Tag(85, 82), a)
    ELSE IF tag = "852" THEN
        Each(Tag(67, 78), get_subfields(field, {"h"}))
    ELSE IF tag = "001" THEN
        LET fs == get_fields(record, tag)
        IN  Each(Tag(73, 68),
                 [k \in 1..Len(fs) |->
                     replace(ControlFieldStr(<<48,48,49>>, fs[k]),
                             <<61,48,48,49,32,32>>, <<>>)])
    ELSE IF tag = "300" THEN
        Each(Tag(83, 80), [k \in 1..Len(a) |-> CleanPages(a[k])])
    ELSE IF tag = "041" THEN
        Flatten([k \in 1..Len(a) |-> LanguageEntries(a[k])])
    ELSE IF tag = "040" THEN
        LET b == get_subfields(field, {"b"})
        IN  Flatten([k \in 1..Len(b) |-> LanguageEntries(b[k])])
    ELSE IF tag = "520" THEN
        Each(Tag(65, 66), a)
    ELSE IF tag = "586" THEN
        Each(Tag(85, 82), get_subfields(field, {"u"}))
    ELSE <<>>

\* strip_end_spaces(lignes) (lines 42-43)
strip_end_spaces(lignes) ==
    [k \in 1..Len(lignes) |-> rstrip(lignes[k], Whitespace)]

RECURSIVE remove_consecutive_duplicates(_)
\* remove_consecutive_duplicates(lignes) (lines 46-47): itertools.groupby keys
remove_consecutive_duplicates(lignes) ==
    IF Len(lignes) <= 1 THEN lignes
    ELSE IF lignes[1] = lignes[2]
         THEN remove_consecutive_duplicates(Tail(lignes))
         ELSE <<lignes[1]>> \o remove_consecutive_duplicates(Tail(lignes))

\* ris_entries of one record as it stands at line 227.  Lines 224-225 call
\* strip_end_spaces and remove_consecutive_duplicates and drop what they
\* return, so the list is joined as it was built.
RisEntries(record) ==
    LET built == <<TY_THES>>
                   \o Flatten([k \in 1..Len(record) |->
                                  FieldEntries(record, record[k])])
                   \o <<CY_Montreal, PB_UdeM, ER_entry>>
        dropped == remove_consecutive_duplicates(strip_end_spaces(built))
    IN  built

\* what one iteration of the loop of line 61 writes to temporary.ris
RisStr(record) == join(<<10>>, RisEntries(record)) \o <<10>>

(***************************************************************************)
(* Record splitter (lines 250-267)                                         *)
(***************************************************************************)
\* one iteration of the loop of line 257 on (records, current): the pair
\* after the line has been handled
SplitStep(recs, cur, line) ==
    IF StartsWith(strip(line, Whitespace), <<84,89,32,32,45>>)       \* "TY  -"
    THEN [records |-> IF cur # <<>> THEN Append(recs, cur) ELSE recs,
          current |-> <<line>>]
    ELSE IF StartsWith(strip(line, Whitespace), <<69,82,32,32,45>>)  \* "ER  -"
    THEN [records |-> Append(recs, Append(cur, line)),
          current |-> <<>>]
    ELSE [records |-> recs,
          current |-> Append(cur, line)]

(***************************************************************************)
(* Per-record cleaning (lines 270-307)                                     *)
(***************************************************************************)
\* the word count above which an AB line is a long abstract (line 296)
LongAbstractWords == 40

\* content = line[6:].strip() (line 293)
Content(line) == strip(SubSeq(line, 7, Len(line)), Whitespace)

\* IsLongAbstract with the comparison off by one (>= for >)
IsLongAbstract_AtLeast(line) ==
    /\ StartsWith(line, <<65,66,32,32,45>>)
    /\ word_count(Content(line)) >= LongAbstractWords

\* the test of lines 292-296: an AB line with more than 40 words
IsLongAbstract(line) ==
    /\ StartsWith(line, <<65,66,32,32,45>>)                          \* "AB  -"
    /\ word_count(Content(line)) > LongAbstractWords

\* BodyNorm without the NFC normalization of line 281
BodyNorm_NoNFC(body) == sorted(set(body))

\* body_norm of line 284: NFC, duplicates removed, sorted
BodyNorm(body) == sorted(set([k \in 1..Len(body) |-> NFC(body[k])]))

\* long_abstracts after the loop of line 291
LongAbstracts(body_norm) ==
    LET long == SelectSeq(body_norm, IsLongAbstract)
    IN  [k \in 1..Len(long) |-> Content(long[k])]

\* NewBody joining the long abstracts with one newline instead of two
NewBody_OneNewline(body_norm) ==
    LET Kept(line) == ~IsLongAbstract(line)
        long_abstracts == LongAbstracts(body_norm)
    IN  SelectSeq(body_norm, Kept)
          \o (IF long_abstracts # <<>>
              THEN <<<<65,66,32,32,45,32>> \o join(<<10>>, long_abstracts)>>
              ELSE <<>>)

\* NewBody with the merged abstract sorted in with the other lines
NewBody_Resorted(body_norm) ==
    LET Kept(line) == ~IsLongAbstract(line)
        long_abstracts == LongAbstracts(body_norm)
    IN  IF long_abstracts = <<>> THEN SelectSeq(body_norm, Kept)
        ELSE sorted(set(SelectSeq(body_norm, Kept))
                      \cup {<<65,66,32,32,45,32>> \o join(<<10, 10>>, long_abstracts)})

\* new_body at line 307
NewBody(body_norm) ==
    LET Kept(line) == ~IsLongAbstract(line)
        long_abstracts == LongAbstracts(body_norm)
    IN  SelectSeq(body_norm, Kept)
          \o (IF long_abstracts # <<>>
              THEN <<<<65,66,32,32,45,32>> \o join(<<10, 10>>, long_abstracts)>>
              ELSE <<>>)

\* CleanRecord without the abstract merge of lines 287-304
CleanRecord_NoMerge(rec) ==
    <<rec[1]>> \o BodyNorm(SubSeq(rec, 2, Len(rec) - 1)) \o <<rec[Len(rec)]>>

\* the record appended to processed_records for a non-empty rec (276-307)
CleanRecord(rec) ==
    LET ty == rec[1]
        er == rec[Len(rec)]
        body == SubSeq(rec, 2, Len(rec) - 1)
    IN  <<ty>> \o NewBody(BodyNorm(body)) \o <<er>>

(***************************************************************************)
(* Thesis-type canonicalization (lines 310-356)                            *)
(***************************************************************************)
prefixesMA == <<
    \* "M3  - Histoire (M. Sc.)"
    <<77,51,32,32,45,32,72,105,115,116,111,105,114,101,32,40,77,46,32,83,99,46,41>>,
    \* "M3  - Histoire (M.A.)"
    <<77,51,32,32,45,32,72,105,115,116,111,105,114,101,32,40,77,46,65,46,41>>,
    \* "M3  - Maitrise es arts en histoire"
    <<77,51,32,32,45,32,77,97,105,116,114,105,115,101,32,101,115,32,97,114,116,115,32,101,110,32,104,105,115,116,111,105,114,101>>,
    \* "M3  - Maîtrise (M.A. Hist.)"
    <<77,51,32,32,45,32,77,97,238,116,114,105,115,101,32,40,77,46,65,46,32,72,105,115,116,46,41>>,
    \* "M3  - Mémoire (M.A.)"
    <<77,51,32,32,45,32,77,233,109,111,105,114,101,32,40,77,46,65,46,41>>,
    \* "M3  - These (M.A.)"
    <<77,51,32,32,45,32,84,104,101,115,101,32,40,77,46,65,46,41>>,
    \* "M3  - Thèse (D.E.S."
    <<77,51,32,32,45,32,84,104,232,115,101,32,40,68,46,69,46,83,46>>,
    \* "M3  - Thèse (M. A.)"
    <<77,51,32,32,45,32,84,104,232,115,101,32,40,77,46,32,65,46,41>>,
    \* "M3  - Thèse (M. Sc.)"
    <<77,51,32,32,45,32,84,104,232,115,101,32,40,77,46,32,83,99,46,41>>,
    \* "M3  - Thèse (M.A."
    <<77,51,32,32,45,32,84,104,232,115,101,32,40,77,46,65,46>>,
    \* "M3  - Thèse (de maîtrise"
    <<77,51,32,32,45,32,84,104,232,115,101,32,40,100,101,32,109,97,238,116,114,105,115,101>>,
    \* "M3  - Thèse. (M.A.)"
    <<77,51,32,32,45,32,84,104,232,115,101,46,32,40,77,46,65,46,41>>,
    \* "M3  - Thèse. (M.A.)"
    <<77,51,32,32,45,32,84,104,232,115,101,46,32,40,77,46,65,46,41>>,
    \* "M3  - Tḧse (M.A.)" (h with diaeresis, U+1E27)
    <<77,51,32,32,45,32,84,7719,115,101,32,40,77,46,65,46,41>> >>

prefixesPHD == <<
    \* "M3  - Histoire (Ph. D.)"
    <<77,51,32,32,45,32,72,105,115,116,111,105,114,101,32,40,80,104,46,32,68,46,41>>,
    \* "M3  - Thèse (D. ès L.)"
    <<77,51,32,32,45,32,84,104,232,115,101,32,40,68,46,32,232,115,32,76,46,41>>,
    \* "M3  - Thèse (D.L.)"
    <<77,51,32,32,45,32,84,104,232,115,101,32,40,68,46,76,46,41>>,
    \* "M3  - Thèse (Ph. D."
    <<77,51,32,32,45,32,84,104,232,115,101,32,40,80,104,46,32,68,46>>,
    \* "M3  - Thèse (Ph.D."
    <<77,51,32,32,45,32,84,104,232,115,101,32,40,80,104,46,68,46>>,
    \* "M3  - Thèse présentée pour l'obtention du grade de Docteur en Philosophie (Ph. D.)"
    <<77,51,32,32,45,32,84,104,232,115,101,32,112,114,233,115,101,110,116,233,101,32,112,111,117,114,32,108,39,111,98,116,101,110,116,105,111,110,32,100,117,32,103,114,97,100,101,32,100,101,32,68,111,99,116,101,117,114,32,101,110,32,80,104,105,108,111,115,111,112,104,105,101,32,40,80,104,46,32,68,46,41>>,
    \* "M3  - Thèse présentée à la Faculté des études supérieures en vue de l'obtention du grade de Phil"
    <<77,51,32,32,45,32,84,104,232,115,101,32,112,114,233,115,101,110,116,233,101,32,224,32,108,97,32,70,97,99,117,108,116,233,32,100,101,115,32,233,116,117,100,101,115,32,115,117,112,233,114,105,101,117,114,101,115,32,101,110,32,118,117,101,32,100,101,32,108,39,111,98,116,101,110,116,105,111,110,32,100,117,32,103,114,97,100,101,32,100,101,32,80,104,105,108>> >>

\* "M3  - Mémoire de maîtrise (M.A.)" (line 351)
CanonicalMA == <<77,51,32,32,45,32,77,233,109,111,105,114,101,32,100,101,32,109,97,238,116,114,105,115,101,32,40,77,46,65,46,41>>
\* CanonicalPHD as a string that starts with the literal "M3  - Thèse (M.A.":
\* "M3  - Thèse (M.A.) de doctorat"
CanonicalPHD_MasterPrefix == <<77,51,32,32,45,32,84,104,232,115,101,32,40,77,46,65,46,41,32,100,101,32,100,111,99,116,111,114,97,116>>

\* "M3  - Thèse de doctorat (Ph.D.)" (line 353)
CanonicalPHD == <<77,51,32,32,45,32,84,104,232,115,101,32,100,101,32,100,111,99,116,111,114,97,116,32,40,80,104,46,68,46,41>>

\* CanonLine comparing the whole line with the literals (== for startswith)
CanonLine_Exact(line) ==
    LET l == NFC(line)
    IN  IF \E k \in 1..Len(prefixesMA) : l = prefixesMA[k] THEN CanonicalMA
        ELSE IF \E k \in 1..Len(prefixesPHD) : l = prefixesPHD[k] THEN CanonicalPHD
        ELSE l

\* the body of the loop of line 342 for one line (every line is a str, so
\* the isinstance branch of line 344 never runs)
CanonLine(line) ==
    LET l == NFC(line)
    IN  IF StartsWithAny(l, prefixesMA) THEN CanonicalMA
        ELSE IF StartsWithAny(l, prefixesPHD) THEN CanonicalPHD
        ELSE l

\* new_record of one record (lines 341-355)
CanonRecord(record) == [k \in 1..Len(record) |-> CanonLine(record[k])]

(***************************************************************************)
(* Final write (lines 367-371)                                             *)
(***************************************************************************)
\* what the loop of line 368 writes for one record
RecordText(rec) ==
    Flatten([k \in 1..Len(rec) |-> rec[k] \o <<10>>]) \o <<10>>

(***************************************************************************)
(* The SourceRecords MarcXML_input.xml may hold (parse_xml_to_array,       *)
(* line 54).  Sub-field values are single-line texts.                      *)
(***************************************************************************)
DataField(tag, subfields) == [tag |-> tag, data |-> <<>>, subfields |-> subfields]
ControlField(tag, data) == [tag |-> tag, data |-> data, subfields |-> <<>>]
Sub(code, value) == [code |-> code, value |-> value]

RECURSIVE Words(_, _)
\* n copies of the word w, separated by single blanks
Words(n, w) ==
    IF n = 0 THEN <<>>
    ELSE IF n = 1 THEN w ELSE w \o <<32>> \o Words(n - 1, w)

\* abstracts: 50 words; 40 words (one gap is a blank and a tab); 41 words;
\* 41 words with a trailing blank; 41 words starting with a precomposed
\* e-acute; the same text with e + combining acute
Abstract50 == Words(50, <<97>>)
Abstract40 == Words(39, <<97>>) \o <<32, 9, 122>>
Abstract41 == Words(41, <<97>>)
Abstract41b == Words(41, <<98>>) \o <<32>>
Abstract41e == <<233, 32>> \o Words(40, <<97>>)
Abstract41d == <<101, 769, 32>> \o Words(40, <<97>>)

\* 245 a "Titre /"
Field245 == DataField("245", <<Sub("a", <<84,105,116,114,101,32,47>>)>>)
\* 100 a "Roy, J.,"
Field100 == DataField("100", <<Sub("a", <<82,111,121,44,32,74,46,44>>)>>)
\* 502 a "Thèse (Ph. D.)"
Field502PhD == DataField("502", <<Sub("a", <<84,104,232,115,101,32,40,80,104,46,32,68,46,41>>)>>)
\* 502 a "Thèse (Ph.D.)--Montréal."
Field502PhD2 == DataField("502", <<Sub("a", <<84,104,232,115,101,32,40,80,104,46,68,46,41,45,45,77,111,110,116,114,233,97,108,46>>)>>)
\* 502 a "Mémoire (M.A.)." d "1999 :"
Field502MA == DataField("502", <<Sub("a", <<77,233,109,111,105,114,101,32,40,77,46,65,46,41,46>>),
                                 Sub("d", <<49,57,57,57,32,58>>)>>)
\* 490 a "Something unrecognized"
Field490 == DataField("490", <<Sub("a", <<83,111,109,101,116,104,105,110,103,32,117,110,114,101,99,111,103,110,105,122,101,100>>)>>)
\* 260 a "Paris" c "1999."
Field260 == DataField("260", <<Sub("a", <<80,97,114,105,115>>), Sub("c", <<49,57,57,57,46>>)>>)
Field520(abstract) == DataField("520", <<Sub("a", abstract)>>)
\* 650 a "Québec." (precomposed) and 650 a "Québec" (e + combining acute)
Field650 == DataField("650", <<Sub("a", <<81,117,233,98,101,99,46>>)>>)
Field650d == DataField("650", <<Sub("a", <<81,117,101,769,98,101,99>>)>>)
\* 700 a "Roy"
Field700 == DataField("700", <<Sub("a", <<82,111,121>>)>>)
\* 001 "48 25"
Field001 == ControlField("001", <<52,56,32,50,53>>)
\* 880 6 "520-01" a "Note"
Field880Note == DataField("880", <<Sub("6", <<53,50,48,45,48,49>>), Sub("a", <<78,111,116,101>>)>>)
\* 880 6 "245-01" a "Titre" b "bis."
Field880Title == DataField("880", <<Sub("6", <<50,52,53,45,48,49>>),
                                    Sub("a", <<84,105,116,114,101>>), Sub("b", <<98,105,115,46>>)>>)
\* 041 a "freeng"
Field041 == DataField("041", <<Sub("a", <<102,114,101,101,110,103>>)>>)
\* 040 b "ger"
Field040 == DataField("040", <<Sub("b", <<103,101,114>>)>>)
\* 300 a "12 p. :" and 300 a "1 ressource en ligne"
Field300 == DataField("300", <<Sub("a", <<49,50,32,112,46,32,58>>)>>)
Field300Online == DataField("300", <<Sub("a", <<49,32,114,101,115,115,111,117,114,99,101,32,101,110,32,108,105,103,110,101>>)>>)
\* 245 c "Roy" (neither a nor b)
Field245Empty == DataField("245", <<Sub("c", <<82,111,121>>)>>)
\* 008, a tag the mapper has no rule for
Field008 == ControlField("008", <<52,56>>)
\* 880 6 "500-02" a "Un" a "Deux" b "x": a note with two sub-fields a
Field880Note2 == DataField("880", <<Sub("6", <<53,48,48,45,48,50>>), Sub("a", <<85,110>>),
                                    Sub("a", <<68,101,117,120>>), Sub("b", <<120>>)>>)
\* 880 a "Sans": no sub-field 6
Field880NoLink == DataField("880", <<Sub("a", <<83,97,110,115>>)>>)
\* 880 6 "245-01" 6 "520-02" a "Vrai": only the second link is a note link
Field880TwoLinks == DataField("880", <<Sub("6", <<50,52,53,45,48,49>>), Sub("6", <<53,50,48,45,48,50>>),
                                       Sub("a", <<86,114,97,105>>)>>)
\* 880 6 "520-02" c "x": a note with no sub-field a
Field880NoteEmpty == DataField("880", <<Sub("6", <<53,50,48,45,48,50>>), Sub("c", <<120>>)>>)
\* 041 a "fre" a "eng", and 040 b "eng"
Field041Two == DataField("041", <<Sub("a", <<102,114,101>>), Sub("a", <<101,110,103>>)>>)
Field040Eng == DataField("040", <<Sub("b", <<101,110,103>>)>>)
\* 100 c "x": an author field with no sub-field a
Field100Empty == DataField("100", <<Sub("c", <<120>>)>>)

\* title, author, doctoral degree and the same 50-word abstract twice
ScenarioRecord == <<Field245, Field100, Field502PhD, Field520(Abstract50), Field520(Abstract50)>>

\* the same fields in another order
ScenarioShuffled == <<Field520(Abstract50), Field502PhD, Field100, Field520(Abstract50), Field245>>

SourceRecords == {
    ScenarioRecord,
    ScenarioShuffled,
    <<>>,
    <<Field260, Field502MA, Field490, Field260>>,
    <<Field502PhD, Field502PhD2>>,
    <<Field520(Abstract41), Field520(Abstract40)>>,
    <<Field520(Abstract41d), Field520(Abstract41e), Field520(Abstract41b), Field520(Abstract40)>>,
    <<Field650, Field650d, Field100, Field700, Field520(Abstract40), Field520(Abstract40)>>,
    <<Field001, Field880Note, Field880Title, Field041, Field300, Field008>>,
    <<Field245Empty, Field040, Field300Online>>,
    <<Field880Note2, Field880NoLink, Field880TwoLinks, Field880NoteEmpty,
      Field041Two, Field040Eng, Field100Empty>> }

\* the inputs: every sequence of at most MaxRecords SourceRecords
Inputs == UNION {[1..n -> SourceRecords] : n \in 0..MaxRecords}

(***************************************************************************)
(* The repository holds three scripts that run on their own.  Each has its *)
(* variables; while one script runs, the variables of the other two keep   *)
(* the values they have when their script is not running.                  *)
(***************************************************************************)
\* QueryCrossrefAPI_withCSVofQIDnDOI_forLanguage.py: fetch_crossref_languages
VARIABLES
    input_csv,          \* the rows of the input CSV file (line 37)
    chunk_size,         \* the parameter of line 12
    results,            \* results of line 33
    counter,            \* counter of line 34
    output_csv,         \* the rows of the output CSV file
    row,                \* the position of the loop of line 39
    fetch_pc            \* "off", "loop" or "done"

language_vars == <<input_csv, chunk_size, results, counter, output_csv, row,
                   fetch_pc>>

\* fetch_crossref_languages is not running
LanguageOff ==
    /\ input_csv = <<>>
    /\ chunk_size = 1000
    /\ results = <<>>
    /\ counter = 0
    /\ output_csv = <<>>
    /\ row = 1
    /\ fetch_pc = "off"

\* QueryCrossrefAPI_withCSVofQIDnDOI_forJournalName.py: DOIJournalExtractor
VARIABLES
    df,                 \* the rows of the input TSV file (line 130)
    batch_size,         \* the parameter of line 119
    max_workers,        \* self.max_workers (line 27)
    batches,            \* batches of line 146
    futures,            \* the futures of line 157, each with the frame of
                        \* process_doi_batch that computes it
    yielded,            \* the futures as_completed has yielded (line 160)
    batch_results,      \* line 161
    result_idx,         \* the position of the loop of line 164
    processed_count,    \* line 151
    successful_count,   \* line 152
    main_pc,            \* where process_tsv_file_streaming is
    calls,              \* the frames of write_result_to_file, per thread
    write_lock,         \* self.write_lock (line 33): TRUE when held
    output_file         \* the text of the output TSV file

journal_vars == <<df, batch_size, max_workers, batches, futures, yielded,
                  batch_results, result_idx, processed_count,
                  successful_count,
                  main_pc, calls, write_lock, output_file>>

\* no DOIJournalExtractor is at work
JournalOff ==
    /\ df = <<>>
    /\ batch_size = 50
    /\ max_workers = 10
    /\ batches = <<>>
    /\ futures = <<>>
    /\ yielded = {}
    /\ batch_results = <<>>
    /\ result_idx = 1
    /\ processed_count = 0
    /\ successful_count = 0
    /\ main_pc = "off"
    /\ calls = <<>>
    /\ write_lock = FALSE
    /\ output_file = <<>>

(***************************************************************************)
(* Thesis_MarcXML_2_RIS.py as a state machine.  pc is the statement the    *)
(* script is at; idx the position of the running loop.                     *)
(***************************************************************************)
VARIABLES
    marc_records,       \* records of line 54: the parsed SourceRecords
    temporary,          \* the text of temporary.ris
    lines,              \* lines of line 251
    records,            \* records of line 253
    current,            \* current of line 254
    processed_records,  \* line 270
    final_records,      \* line 338
    export,             \* the text of export_2_zotero.ris
    pc,
    idx

thesis_vars == <<marc_records, temporary, lines, records, current,
                 processed_records, final_records, export, pc, idx>>

\* the variables of the other scripts
other_vars == <<language_vars, journal_vars>>

vars == <<thesis_vars, language_vars, journal_vars>>

\* Thesis_MarcXML_2_RIS.py is not running
ThesisOff ==
    /\ marc_records = <<>>
    /\ temporary = <<>>
    /\ lines = <<>>
    /\ records = <<>>
    /\ current = <<>>
    /\ processed_records = <<>>
    /\ final_records = <<>>
    /\ export = <<>>
    /\ pc = "off"
    /\ idx = 1

Init ==
    /\ marc_records \in Inputs
    /\ temporary = <<>>
    /\ lines = <<>>
    /\ records = <<>>
    /\ current = <<>>
    /\ processed_records = <<>>
    /\ final_records = <<>>
    /\ export = <<>>
    /\ pc = "map"
    /\ idx = 1
    /\ LanguageOff
    /\ JournalOff

\* one iteration of the loop of line 61: a record is mapped and written
MapRecord ==
    /\ pc = "map"
    /\ idx <= Len(marc_records)
    /\ temporary' = temporary \o RisStr(marc_records[idx])
    /\ idx' = idx + 1
    /\ UNCHANGED <<marc_records, lines, records, current, processed_records,
                   final_records, export, pc>>
    /\ UNCHANGED other_vars

\* lines 250-254: temporary.ris is closed and read back
ReadTemporary ==
    /\ pc = "map"
    /\ idx > Len(marc_records)
    /\ lines' = readlines(temporary)
    /\ records' = <<>>
    /\ current' = <<>>
    /\ pc' = "split"
    /\ idx' = 1
    /\ UNCHANGED <<marc_records, temporary, processed_records, final_records,
                   export>>
    /\ UNCHANGED other_vars

\* one iteration of the loop of line 257
SplitLine ==
    /\ pc = "split"
    /\ idx <= Len(lines)
    /\ LET after == SplitStep(records, current, lines[idx])
       IN  /\ records' = after.records
           /\ current' = after.current
    /\ idx' = idx + 1
    /\ UNCHANGED <<marc_records, temporary, lines, processed_records,
                   final_records, export, pc>>
    /\ UNCHANGED other_vars

\* line 270: the split loop is over; current is not flushed
StartClean ==
    /\ pc = "split"
    /\ idx > Len(lines)
    /\ processed_records' = <<>>
    /\ pc' = "clean"
    /\ idx' = 1
    /\ UNCHANGED <<marc_records, temporary, lines, records, current,
                   final_records, export>>
    /\ UNCHANGED other_vars

\* one iteration of the loop of line 271
CleanNext ==
    /\ pc = "clean"
    /\ idx <= Len(records)
    /\ processed_records' =
          IF records[idx] = <<>> THEN processed_records
          ELSE Append(processed_records, CleanRecord(records[idx]))
    /\ idx' = idx + 1
    /\ UNCHANGED <<marc_records, temporary, lines, records, current,
                   final_records, export, pc>>
    /\ UNCHANGED other_vars

\* line 338
StartCanon ==
    /\ pc = "clean"
    /\ idx > Len(records)
    /\ final_records' = <<>>
    /\ pc' = "canon"
    /\ idx' = 1
    /\ UNCHANGED <<marc_records, temporary, lines, records, current,
                   processed_records, export>>
    /\ UNCHANGED other_vars

\* one iteration of the loop of line 340
CanonNext ==
    /\ pc = "canon"
    /\ idx <= Len(processed_records)
    /\ final_records' = Append(final_records, CanonRecord(processed_records[idx]))
    /\ idx' = idx + 1
    /\ UNCHANGED <<marc_records, temporary, lines, records, current,
                   processed_records, export, pc>>
    /\ UNCHANGED other_vars

\* line 367: export_2_zotero.ris is opened for writing
OpenExport ==
    /\ pc = "canon"
    /\ idx > Len(processed_records)
    /\ export' = <<>>
    /\ pc' = "write"
    /\ idx' = 1
    /\ UNCHANGED <<marc_records, temporary, lines, records, current,
                   processed_records, final_records>>
    /\ UNCHANGED other_vars

\* one iteration of the loop of line 368
WriteNext ==
    /\ pc = "write"
    /\ idx <= Len(final_records)
    /\ export' = export \o RecordText(final_records[idx])
    /\ idx' = idx + 1
    /\ UNCHANGED <<marc_records, temporary, lines, records, current,
                   processed_records, final_records, pc>>
    /\ UNCHANGED other_vars

\* the with block of line 367 ends: the script is over
Finish ==
    /\ pc = "write"
    /\ idx > Len(final_records)
    /\ pc' = "done"
    /\ UNCHANGED <<marc_records, temporary, lines, records, current,
                   processed_records, final_records, export, idx>>
    /\ UNCHANGED other_vars

Next ==
    \/ MapRecord
    \/ ReadTemporary
    \/ SplitLine
    \/ StartClean
    \/ CleanNext
    \/ StartCanon
    \/ CanonNext
    \/ OpenExport
    \/ WriteNext
    \/ Finish

Spec == Init /\ [][Next]_vars

(***************************************************************************)
(* Vocabulary of the properties                                            *)
(***************************************************************************)
\* the script has run to its end
Done == pc = "done"

\* the lines of a record between its first and its last line
BodyOf(rec) == SubSeq(rec, 2, Len(rec) - 1)

\* the line opens / closes a RIS record
IsTY(line) == StartsWith(line, <<84,89,32,32,45>>)
IsER(line) == StartsWith(line, <<69,82,32,32,45>>)

\* the number of positions of the record that hold the line
Occurrences(rec, line) == Cardinality({k \in 1..Len(rec) : rec[k] = line})

\* the FinalRecord the script yields for a SourceRecord that is the whole
\* input: its mapped lines up to the ER line, cleaned and canonicalized
Derived(record) ==
    LET ls == readlines(RisStr(record))
    IN  CanonRecord(CleanRecord(SubSeq(ls, 1, Len(ls) - 1)))

(***************************************************************************)
(* C1: N SourceRecords yield exactly N FinalRecords, the i-th derived from *)
(* the i-th SourceRecord (so identical SourceRecords give identical        *)
(* FinalRecords), with no extra, missing or reordered record.              *)
(***************************************************************************)
C1_OneFinalRecordPerSourceRecord ==
    Done =>
        /\ Len(final_records) = Len(marc_records)
        /\ \A i \in 1..Len(final_records) :
              i <= Len(marc_records) => final_records[i] = Derived(marc_records[i])

\* rec is framed by a TY and an ER line, those of the split record from
C2_Framed(rec, from) ==
    /\ IsTY(rec[1])
    /\ IsER(rec[Len(rec)])
    /\ \A k \in 2..(Len(rec) - 1) : ~IsTY(rec[k]) /\ ~IsER(rec[k])
    /\ rec[1] = from[1]
    /\ rec[Len(rec)] = from[Len(from)]

(***************************************************************************)
(* C2: every record the Normalizer emits, and every FinalRecord, starts    *)
(* with a TY line, ends with an ER line, holds no other TY or ER line, and *)
(* these two lines are the first and last line of the record as split      *)
(* from the intermediate stream.                                           *)
(***************************************************************************)
C2_RecordsFramedByTYandER ==
    /\ \A i \in 1..Len(processed_records) :
          C2_Framed(processed_records[i], records[i])
    /\ \A i \in 1..Len(final_records) :
          C2_Framed(final_records[i], records[i])

(***************************************************************************)
(* C3: no two lines of a FinalRecord are identical after NFC               *)
(* normalization.                                                          *)
(***************************************************************************)
C3_NoDuplicateLineInFinalRecord ==
    \A i \in 1..Len(final_records) :
        \A j, k \in 1..Len(final_records[i]) :
            j # k => NFC(final_records[i][j]) # NFC(final_records[i][k])

(***************************************************************************)
(* Vocabulary of the abstract-merge properties.  The value of an AB line   *)
(* is its text after the six characters "AB  - ", blanks trimmed; its      *)
(* tokens are the whitespace-separated words of the value.                 *)
(***************************************************************************)
IsAB(line) == StartsWith(line, <<65,66,32,32,45>>)
ValueOf(line) == strip(SubSeq(line, 7, Len(line)), Whitespace)
Tokens(line) == word_count(ValueOf(line))
IsLongAB(line) == IsAB(line) /\ Tokens(line) > 40
IsShortAB(line) == IsAB(line) /\ Tokens(line) <= 40

\* the distinct NFC-normalized body lines of the i-th split record
InLines(i) == {NFC(BodyOf(records[i])[k]) : k \in 1..Len(BodyOf(records[i]))}
\* the body of the i-th cleaned record, and its lines as a set
OutBody(i) == BodyOf(processed_records[i])
OutLines(i) == {OutBody(i)[k] : k \in 1..Len(OutBody(i))}

\* v is one of the parts of the text m that blank lines ("\n\n") separate
IsPart(v, m) ==
    \E k \in 1..(Len(m) - Len(v) + 1) :
        /\ SubSeq(m, k, k + Len(v) - 1) = v
        /\ k = 1 \/ (k >= 3 /\ SubSeq(m, k - 2, k - 1) = <<10, 10>>)
        /\ \/ k + Len(v) - 1 = Len(m)
           \/ /\ k + Len(v) + 1 <= Len(m)
              /\ SubSeq(m, k + Len(v), k + Len(v) + 1) = <<10, 10>>

\* the record holds exactly one long AB line, which is its last body line
\* and whose text after "AB  - " has v as one of its parts
MergedHolds(i, v) ==
    LET out == OutBody(i)
    IN  /\ out # <<>>
        /\ IsLongAB(out[Len(out)])
        /\ IsPart(v, SubSeq(out[Len(out)], 7, Len(out[Len(out)])))

(***************************************************************************)
(* C4 as stated: the set of distinct NFC-normalized body lines of the      *)
(* cleaned record equals that of the input record, and no line occurs      *)
(* twice in the cleaned body.                                              *)
(***************************************************************************)
C4_CleanedLinesEqualInputLines ==
    \A i \in 1..Len(processed_records) :
        /\ {NFC(l) : l \in OutLines(i)} = InLines(i)
        /\ Cardinality(OutLines(i)) = Len(OutBody(i))

(***************************************************************************)
(* C4 amended: the lines of the cleaned body that are not long AB lines    *)
(* are exactly the distinct NFC-normalized input body lines that are not   *)
(* long AB lines; the cleaned body holds a long AB line (the merged one)   *)
(* iff the input body holds one; no line occurs twice in the cleaned body. *)
(***************************************************************************)
C4_CleanedLinesEqualInputLinesButLongAB ==
    Done =>
        \A i \in 1..Len(processed_records) :
            /\ {l \in OutLines(i) : ~IsLongAB(l)} = {l \in InLines(i) : ~IsLongAB(l)}
            /\ {NFC(l) : l \in OutLines(i)} = OutLines(i)
            /\ (\E l \in OutLines(i) : IsLongAB(l)) <=> (\E l \in InLines(i) : IsLongAB(l))
            /\ Cardinality(OutLines(i)) = Len(OutBody(i))

\* a record with two distinct long abstracts and two Unicode spellings
\* of one line has been cleaned
C4_Witness ==
    /\ Done
    /\ \E i \in 1..Len(processed_records) :
           /\ Cardinality({l \in InLines(i) : IsLongAB(l)}) >= 2
           /\ Cardinality(InLines(i)) < Cardinality(set(BodyOf(records[i])))

(***************************************************************************)
(* C5: an AB line of exactly 40 tokens is not merged and stays as its own  *)
(* line; an AB line of 41 tokens is removed from among the standalone      *)
(* lines and its value is a part of the combined long-abstract line.       *)
(***************************************************************************)
C5_AbstractMergeThreshold ==
    Done =>
        \A i \in 1..Len(processed_records) :
            \A l \in InLines(i) :
                /\ (IsAB(l) /\ Tokens(l) = 40) =>
                      /\ \E k \in 1..Len(OutBody(i)) : OutBody(i)[k] = l
                      /\ ~MergedHolds(i, ValueOf(l))
                /\ (IsAB(l) /\ Tokens(l) = 41) =>
                      /\ \A k \in 1..(Len(OutBody(i)) - 1) : OutBody(i)[k] # l
                      /\ MergedHolds(i, ValueOf(l))

\* a record with a 40-token and a 41-token abstract has been cleaned
C5_Witness ==
    /\ Done
    /\ \E i \in 1..Len(processed_records) :
           /\ \E l \in InLines(i) : IsAB(l) /\ Tokens(l) = 40
           /\ \E l \in InLines(i) : IsAB(l) /\ Tokens(l) = 41

(***************************************************************************)
(* C6: a cleaned record holds at most one AB line of more than 40 tokens;  *)
(* with k >= 1 distinct long AB lines in the (NFC-normalized) input body   *)
(* that line is "AB  - " followed by the k long values in sorted line      *)
(* order, a blank line between consecutive values, and every AB line of at *)
(* most 40 tokens is still a line of its own; with k = 0 the AB lines of   *)
(* the cleaned body are those of the input body.                           *)
(***************************************************************************)
C6_OneMergedAbstract ==
    Done =>
        \A i \in 1..Len(processed_records) :
            LET long == SelectSeq(sorted(InLines(i)), IsLongAB)
                values == [k \in 1..Len(long) |-> ValueOf(long[k])]
                out == OutBody(i)
                longAt == {k \in 1..Len(out) : IsLongAB(out[k])}
            IN  /\ Cardinality(longAt) <= 1
                /\ Len(long) >= 1 =>
                      /\ Cardinality(longAt) = 1
                      /\ \A k \in longAt :
                            out[k] = <<65,66,32,32,45,32>> \o join(<<10, 10>>, values)
                /\ \A l \in InLines(i) :
                      IsShortAB(l) => Occurrences(out, l) = 1
                /\ Len(long) = 0 =>
                      {l \in OutLines(i) : IsAB(l)} = {l \in InLines(i) : IsAB(l)}

\* a record with two distinct long abstracts and a short one has been
\* cleaned, and so has a record with abstracts that are all short
C6_Witness ==
    /\ Done
    /\ \E i \in 1..Len(processed_records) :
          /\ Cardinality({l \in InLines(i) : IsLongAB(l)}) = 2
          /\ \E l \in InLines(i) : IsShortAB(l)
    /\ \E i \in 1..Len(processed_records) :
          /\ \E l \in InLines(i) : IsShortAB(l)
          /\ \A l \in InLines(i) : ~IsLongAB(l)

\* the two canonical strings, written out
C7_Master == <<77,51,32,32,45,32,77,233,109,111,105,114,101,32,100,101,32,109,97,238,116,114,105,115,101,32,40,77,46,65,46,41>>
C7_Doctoral == <<77,51,32,32,45,32,84,104,232,115,101,32,100,101,32,100,111,99,116,111,114,97,116,32,40,80,104,46,68,46,41>>
\* "M3  - Thèse (Ph. D.)", "M3  - Mémoire (M.A.)", "M3  - Something unrecognized"
C7_LinePhD == <<77,51,32,32,45,32,84,104,232,115,101,32,40,80,104,46,32,68,46,41>>
C7_LineMA == <<77,51,32,32,45,32,77,233,109,111,105,114,101,32,40,77,46,65,46,41>>
C7_LineOther == <<77,51,32,32,45,32,83,111,109,101,116,104,105,110,103,32,117,110,114,101,99,111,103,110,105,122,101,100>>

(***************************************************************************)
(* C7: a line whose NFC form starts with a literal of prefixesMA becomes   *)
(* exactly "M3  - Mémoire de maîtrise (M.A.)" (also when a literal of      *)
(* prefixesPHD matches too); otherwise a line whose NFC form starts with a *)
(* literal of prefixesPHD becomes exactly "M3  - Thèse de doctorat         *)
(* (Ph.D.)"; any other line passes through unchanged.  "M3  - Thèse (Ph.   *)
(* D.)" maps to the doctoral form, "M3  - Mémoire (M.A.)" to the master's  *)
(* form, "M3  - Something unrecognized" to itself.                         *)
(***************************************************************************)
C7_CanonicalizerMapping ==
    Done =>
        \A i \in 1..Len(final_records) :
            /\ Len(final_records[i]) = Len(processed_records[i])
            /\ \A k \in 1..Len(final_records[i]) :
                  LET line == processed_records[i][k]
                      out == final_records[i][k]
                      ma == \E p \in 1..Len(prefixesMA) : StartsWith(NFC(line), prefixesMA[p])
                      phd == \E p \in 1..Len(prefixesPHD) : StartsWith(NFC(line), prefixesPHD[p])
                  IN  /\ ma => out = C7_Master
                      /\ (~ma /\ phd) => out = C7_Doctoral
                      /\ (~ma /\ ~phd) => out = line
                      /\ line = C7_LinePhD => out = C7_Doctoral
                      /\ line = C7_LineMA => out = C7_Master
                      /\ line = C7_LineOther => out = line

\* the three example lines and a doctoral line with text after the prefix
\* have all been through the canonicalizer
C7_Witness ==
    /\ Done
    /\ \A line \in {C7_LinePhD, C7_LineMA, C7_LineOther} :
          \E i \in 1..Len(final_records) :
              \E k \in 1..Len(processed_records[i]) : processed_records[i][k] = line
    /\ \E i \in 1..Len(final_records) :
          \E k \in 1..Len(processed_records[i]) :
              /\ Len(processed_records[i][k]) > Len(C7_LinePhD)
              /\ final_records[i][k] = C7_Doctoral

(***************************************************************************)
(* C8: every record of the final output holds exactly one line             *)
(* "CY  - Montréal" and exactly one line "PB  - Université de Montréal".   *)
(***************************************************************************)
C8_OnePlaceAndPublisherPerRecord ==
    \A i \in 1..Len(final_records) :
        /\ Occurrences(final_records[i],
               <<67,89,32,32,45,32,77,111,110,116,114,233,97,108>>) = 1
        /\ Occurrences(final_records[i],
               <<80,66,32,32,45,32,85,110,105,118,101,114,115,105,116,233,32,100,101,32,77,111,110,116,114,233,97,108>>) = 1

\* the lines of the scenario's FinalRecord, written out, and the scenario
C9_Expected == <<
    <<84,89,32,32,45,32,84,72,69,83>>,                         \* "TY  - THES"
    <<65,85,32,32,45,32,82,111,121,44,32,74>>,                 \* "AU  - Roy, J"
    <<67,89,32,32,45,32,77,111,110,116,114,233,97,108>>,       \* "CY  - Montréal"
    C7_Doctoral,
    <<80,66,32,32,45,32,85,110,105,118,101,114,115,105,116,233,32,100,101,32,77,111,110,116,114,233,97,108>>,
    <<84,73,32,32,45,32,84,105,116,114,101>>,                  \* "TI  - Titre"
    <<65,66,32,32,45,32>> \o Words(50, <<97>>),                \* "AB  - a a ... a"
    <<69,82,32,32,45,32>> >>                                   \* "ER  - "

C9_IsScenario(record) ==
    /\ Len(record) = 5
    /\ Cardinality({k \in 1..5 : record[k] = Field245}) = 1
    /\ Cardinality({k \in 1..5 : record[k] = Field100}) = 1
    /\ Cardinality({k \in 1..5 : record[k] = Field502PhD}) = 1
    /\ Cardinality({k \in 1..5 : record[k] = Field520(Abstract50)}) = 2

(***************************************************************************)
(* C9: an input of one SourceRecord with one 245, one 100, one 502 a       *)
(* "Thèse (Ph. D.)" and the same 50-word 520 twice gives exactly one       *)
(* record in the output, with the lines TY, AU, CY, M3 (doctoral form),    *)
(* PB, TI, one AB holding the 50-word text once, ER, in this order.        *)
(***************************************************************************)
C9_EndToEndScenario ==
    (Done /\ Len(marc_records) = 1 /\ C9_IsScenario(marc_records[1])) =>
        /\ final_records = <<C9_Expected>>
        /\ readlines(export) = C9_Expected \o << <<>> >>

\* the script has finished on the scenario with its fields in an order
\* that is not the order of the output lines
C9_Witness ==
    /\ Done
    /\ Len(marc_records) = 1
    /\ C9_IsScenario(marc_records[1])
    /\ marc_records[1][1].tag = "520"

(***************************************************************************)
(* C10: in the final output file, exactly one blank line lies between the  *)
(* ER line of a record and the TY line of the next record.                 *)
(***************************************************************************)
C10_OneBlankLineBetweenRecords ==
    Done =>
        LET ls == readlines(export)
        IN  \A i, j \in 1..Len(ls) :
                (/\ i < j
                 /\ IsER(ls[i])
                 /\ IsTY(ls[j])
                 /\ \A k \in (i + 1)..(j - 1) : ~IsER(ls[k]) /\ ~IsTY(ls[k]))
                => (j = i + 2 /\ ls[i + 1] = <<>>)

(***************************************************************************)
(* Vocabulary of the mapper properties                                     *)
(***************************************************************************)
\* temporary.ris has just been read back (line 251)
Mapped == pc = "split" /\ idx = 1

\* the lines of temporary.ris as the script writes it, if each field
\* contributed the lines Entries(record, field)
IntermediateLines(Entries(_, _)) ==
    Flatten([i \in 1..Len(marc_records) |->
               <<TY_THES>>
                 \o Flatten([k \in 1..Len(marc_records[i]) |->
                               Entries(marc_records[i], marc_records[i][k])])
                 \o <<CY_Montreal, PB_UdeM, <<69,82,32,32,45,32>>, <<>>>>])

(***************************************************************************)
(* C11: in the intermediate file no blank line stands between records:     *)
(* every ER line is immediately followed by the TY line of the next record *)
(* or by the end of the file.                                              *)
(***************************************************************************)
C11_ERFollowedByTYOrEndOfFile ==
    Mapped =>
        \A k \in 1..Len(lines) :
            IsER(lines[k]) => (k = Len(lines) \/ IsTY(lines[k + 1]))

\* the sub-fields the rule of a tag selects (lines 74-212)
C13_Selected(field) ==
    CASE field.tag \in {"245"} -> {"a", "b"}
      [] field.tag = "880" -> IF IsNoteLink(field) THEN {"a"} ELSE {"a", "b"}
      [] field.tag \in {"502", "500"} -> {"a", "d"}
      [] field.tag = "260" -> {"c"}
      [] field.tag = "852" -> {"h"}
      [] field.tag = "040" -> {"b"}
      [] field.tag = "586" -> {"u"}
      [] OTHER -> {"a"}

\* a data field of a mapped tag that holds none of the selected sub-fields
C13_Lacks(field) ==
    /\ field.tag \in {"245", "880", "100", "700", "650", "020", "022", "260",
                      "502", "500", "490", "999", "852", "300", "041", "040",
                      "520", "586"}
    /\ get_subfields(field, C13_Selected(field)) = <<>>

\* a field that lacks its selected sub-fields contributes no line
C13_Entries(record, field) ==
    IF C13_Lacks(field) THEN <<>> ELSE FieldEntries(record, field)

(***************************************************************************)
(* C13: a field of a mapped tag in which none of the sub-fields its rule   *)
(* selects is present (a 245 or a non-note 880 with neither a nor b)       *)
(* contributes no line at all to the intermediate file.                    *)
(***************************************************************************)
C13_FieldWithoutSelectedSubfieldsGivesNoLine ==
    Mapped => lines = IntermediateLines(C13_Entries)

\* the lines C14 gives an 880 field: one AB line per sub-field a when the
\* first sub-field 6 starts with "500" or "520", else one TI line
C14_Entries(record, field) ==
    LET six == SelectSeq(field.subfields, LAMBDA sf : sf.code = "6")
        as == SelectSeq(field.subfields, LAMBDA sf : sf.code = "a")
        note == /\ six # <<>>
                /\ SubSeq(six[1].value, 1, 3) \in {<<53,48,48>>, <<53,50,48>>}
    IN  IF field.tag # "880" THEN FieldEntries(record, field)
        ELSE IF note THEN [k \in 1..Len(as) |-> <<65,66,32,32,45,32>> \o as[k].value]
        ELSE <<<<84,73,32,32,45,32>> \o rstrip(Title(field), {46})>>

(***************************************************************************)
(* C14: an 880 field whose first sub-field 6 starts with "500" or "520"    *)
(* gives one AB line per sub-field a and no TI line; any other 880 field   *)
(* gives exactly one TI line, built from its sub-fields a and b, and no AB *)
(* line.                                                                   *)
(***************************************************************************)
C14_LinkedField880 ==
    Mapped => lines = IntermediateLines(C14_Entries)

\* a record with a note 880 of two sub-fields a, an 880 without sub-field 6
\* and an 880 whose second sub-field 6 alone is a note link has been mapped
C14_Witness ==
    /\ Mapped
    /\ \E i \in 1..Len(marc_records) :
          /\ \E k \in 1..Len(marc_records[i]) : marc_records[i][k] = Field880Note2
          /\ \E k \in 1..Len(marc_records[i]) : marc_records[i][k] = Field880NoLink
          /\ \E k \in 1..Len(marc_records[i]) : marc_records[i][k] = Field880TwoLinks
    /\ \E k \in 1..Len(lines) : lines[k] = <<65,66,32,32,45,32,68,101,117,120>>
    /\ \E k \in 1..Len(lines) : lines[k] = <<84,73,32,32,45,32,86,114,97,105>>

\* the LA lines C15 gives one language value
C15_Lines(value) ==
    (IF Contains(value, <<102,114,101>>)
     THEN <<<<76,65,32,32,45,32,70,114,97,110,231,97,105,115>>>> ELSE <<>>)
      \o (IF Contains(value, <<101,110,103>>)
          THEN <<<<76,65,32,32,45,32,65,110,103,108,97,105,115>>>> ELSE <<>>)

\* the lines C15 gives a language field: those of its values, in order
C15_Entries(record, field) ==
    LET values == get_subfields(field, IF field.tag = "041" THEN {"a"} ELSE {"b"})
    IN  IF field.tag \in {"041", "040"}
        THEN Flatten([k \in 1..Len(values) |-> C15_Lines(values[k])])
        ELSE FieldEntries(record, field)

(***************************************************************************)
(* C15: a language value (041 a, 040 b) gives the line "LA  - Français"    *)
(* iff it contains "fre" and the line "LA  - Anglais" iff it contains      *)
(* "eng": both lines, Français first, when it contains both, and no LA     *)
(* line when it contains neither.                                          *)
(***************************************************************************)
C15_LanguageLines ==
    Mapped => lines = IntermediateLines(C15_Entries)

\* language values with both codes, with one code and with neither have
\* been mapped
C15_Witness ==
    /\ Mapped
    /\ \E i, j \in 1..Len(marc_records) :
          /\ \E k \in 1..Len(marc_records[i]) : marc_records[i][k] = Field041
          /\ \E k \in 1..Len(marc_records[j]) : marc_records[j][k] = Field040
    /\ \E k \in 1..(Len(lines) - 1) :
          /\ lines[k] = <<76,65,32,32,45,32,70,114,97,110,231,97,105,115>>
          /\ lines[k + 1] = <<76,65,32,32,45,32,65,110,103,108,97,105,115>>

(***************************************************************************)
(* C16: in every cleaned record the body lines other than the merged long  *)
(* abstract stand in strictly ascending order of their NFC text, and the   *)
(* merged long abstract, when there is one, is the last body line, right   *)
(* before the ER line.                                                     *)
(***************************************************************************)
C16_BodySortedMergedAbstractLast ==
    Done =>
        \A i \in 1..Len(processed_records) :
            LET body == OutBody(i)
                n == Len(body)
            IN  /\ \A k \in 1..n : IsLongAB(body[k]) => k = n
                /\ \A j, k \in 1..n :
                      (j < k /\ ~IsLongAB(body[j]) /\ ~IsLongAB(body[k]))
                         => StrLess(NFC(body[j]), NFC(body[k]))

\* a cleaned record ends with a merged abstract that follows lines sorting
\* after every AB line
C16_Witness ==
    /\ Done
    /\ \E i \in 1..Len(processed_records) :
          LET body == OutBody(i)
          IN  /\ Len(body) >= 3
              /\ IsLongAB(body[Len(body)])
              /\ StartsWith(body[1], <<65,85>>)
              /\ IsER(processed_records[i][Len(body) + 2])

(***************************************************************************)
(* The record splitter on its own (lines 250-267), run on any line stream: *)
(* temporary.ris holds any sequence of at most MaxLines StreamLines.       *)
(***************************************************************************)
MaxLines == 3

\* "TY  - THES", "ER  - ", a blank line, "AU  - Roy", and "  TY  - THES"
\* (a TY line behind two blanks)
StreamLines == {TY_THES, <<69,82,32,32,45,32>>, <<>>, <<65,85,32,32,45,32,82,111,121>>,
                <<32,32>> \o TY_THES}

Streams == UNION {[1..n -> StreamLines] : n \in 0..MaxLines}

\* lines 250-254 have run on a file that holds the lines of a stream
InitSplitter ==
    /\ marc_records = <<>>
    /\ lines \in Streams
    /\ temporary = Flatten([k \in 1..Len(lines) |-> lines[k] \o <<10>>])
    /\ records = <<>>
    /\ current = <<>>
    /\ processed_records = <<>>
    /\ final_records = <<>>
    /\ export = <<>>
    /\ pc = "split"
    /\ idx = 1
    /\ LanguageOff
    /\ JournalOff

\* the loop of line 257 and its end
NextSplitter ==
    \/ SplitLine
    \/ StartClean

SpecSplitter == InitSplitter /\ [][NextSplitter]_vars

(***************************************************************************)
(* C12: the splitter loses no line: for any line stream, also one that     *)
(* ends without an ER line or has lines after its last ER line, the        *)
(* records it has emitted when the loop is over, put end to end, are the   *)
(* input line stream.                                                      *)
(***************************************************************************)
C12_EmittedRecordsAreTheLineStream ==
    pc = "clean" => Flatten(records) = lines

(***************************************************************************)
(* Python values of the Crossref scripts.  A value is its type and the     *)
(* text str() gives for it: None and a str are not the same value even     *)
(* when their text is.                                                     *)
(***************************************************************************)
\* None; str(None) is "None"
None == [type |-> "NoneType", str |-> <<78,111,110,101>>]

\* a str
Str(s) == [type |-> "str", str |-> s]

\* an exception object e; str(e) is its message
Raised(message) == [type |-> "Exception", str |-> message]

\* the truth value of a str or None (if v:, v if v else ...)
Truthy(v) == v.type # "NoneType" /\ ~(v.type = "str" /\ v.str = <<>>)

(***************************************************************************)
(* QueryCrossrefAPI_withCSVofQIDnDOI_forLanguage.py                        *)
(*                                                                         *)
(* fetch_crossref_languages(input_csv, output_csv, chunk_size), run on an  *)
(* output file that does not exist yet.  A CSV file is the sequence of its *)
(* rows, a row the sequence of its cells.                                  *)
(***************************************************************************)
MaxRows == 4
MaxChunkSize == 3

\* the row writeheader() writes: "qid", "language" (lines 67, 69)
HeaderRow == <<<<113,105,100>>, <<108,97,110,103,117,97,103,101>>>>

\* the qid of the i-th input row: "Q1", "Q2", ...
Qid(i) == <<81, 48 + i>>

\* the doi cells of the input: none, or "10.1/a"
DoiCells == {<<>>, <<49,48,46,49,47,97>>}

\* the input files: at most MaxRows rows (the DictReader rows of line 37)
InputFiles ==
    UNION {{[i \in 1..n |-> [qid |-> Qid(i), doi |-> dois[i]]] :
              dois \in [1..n -> DoiCells]} : n \in 0..MaxRows}

\* language after lines 44-56: None without a doi; with a doi what the
\* message holds ("en", or no language: None), or the exception raised
\* ("timed out")
Languages(doi) ==
    IF doi = <<>> THEN {None}
    ELSE {None, Str(<<101,110>>), Raised(<<116,105,109,101,100,32,111,117,116>>)}

\* the cell csv writes for a value: nothing for None, else str(value)
CsvCell(v) == IF v = None THEN <<>> ELSE v.str

\* writer.writerows(results) (lines 70, 80)
CsvRows(rs) == [k \in 1..Len(rs) |-> <<rs[k].qid, CsvCell(rs[k].language)>>]

\* HeaderAtFlush true at every flush
HeaderAtFlush_EveryFlush(n, size) == n % size = 0

\* line 68: the flush inside the loop writes the header
HeaderAtFlush(n, size) == n = size

\* line 78: the flush after the loop writes the header
HeaderAtEnd(n, size) == n <= size

InitLanguage ==
    /\ input_csv \in InputFiles
    /\ chunk_size \in 1..MaxChunkSize
    /\ results = <<>>
    /\ counter = 0
    /\ output_csv = <<>>
    /\ row = 1
    /\ fetch_pc = "loop"
    /\ ThesisOff
    /\ JournalOff

\* one iteration of the loop of line 39 (lines 40-72)
FetchRow ==
    /\ fetch_pc = "loop"
    /\ row <= Len(input_csv)
    /\ \E language \in Languages(input_csv[row].doi) :
          LET appended == Append(results, [qid |-> input_csv[row].qid,
                                           language |-> language])
              n == counter + 1
          IN  /\ counter' = n
              /\ IF n % chunk_size = 0
                 THEN /\ output_csv' =
                            output_csv
                              \o (IF HeaderAtFlush(n, chunk_size)
                                  THEN <<HeaderRow>> ELSE <<>>)
                              \o CsvRows(appended)
                      /\ results' = <<>>
                 ELSE /\ results' = appended
                      /\ UNCHANGED output_csv
    /\ row' = row + 1
    /\ UNCHANGED <<input_csv, chunk_size, fetch_pc>>
    /\ UNCHANGED <<thesis_vars, journal_vars>>

\* lines 75-81: the rows that are left are written
FlushRemaining ==
    /\ fetch_pc = "loop"
    /\ row > Len(input_csv)
    /\ output_csv' =
          IF results # <<>>
          THEN output_csv
                 \o (IF HeaderAtEnd(counter, chunk_size)
                     THEN <<HeaderRow>> ELSE <<>>)
                 \o CsvRows(results)
          ELSE output_csv
    /\ fetch_pc' = "done"
    /\ UNCHANGED <<input_csv, chunk_size, results, counter, row>>
    /\ UNCHANGED <<thesis_vars, journal_vars>>

NextLanguage ==
    \/ FetchRow
    \/ FlushRemaining

SpecLanguage == InitLanguage /\ [][NextLanguage]_vars

\* the number of data rows a step appends to the output file
C17_Appended ==
    Cardinality({k \in (Len(output_csv) + 1)..Len(output_csv') :
                    output_csv'[k] # HeaderRow})

(***************************************************************************)
(* C17: a run of fetch_crossref_languages over R >= 1 rows, the output     *)
(* file absent at first, leaves the header exactly once, as the first row  *)
(* of the file, and after it exactly R data rows in input order, whatever  *)
(* R and chunk_size >= 1 are (R may be chunk_size or a multiple of it);    *)
(* the file grows by flushes of chunk_size data rows and one last flush of *)
(* fewer rows.                                                             *)
(***************************************************************************)
C17_HeaderOnceThenEveryRow ==
    /\ [](fetch_pc = "done" /\ Len(input_csv) >= 1 =>
             /\ Len(output_csv) = Len(input_csv) + 1
             /\ output_csv[1] = HeaderRow
             /\ \A k \in 2..Len(output_csv) :
                   /\ output_csv[k] # HeaderRow
                   /\ Len(output_csv[k]) = 2
                   /\ output_csv[k][1] = input_csv[k - 1].qid)
    /\ [][output_csv' # output_csv =>
             \/ C17_Appended = chunk_size
             \/ fetch_pc' = "done" /\ C17_Appended \in 1..(chunk_size - 1)]_vars

\* a run over twice chunk_size rows, chunk_size at least 2, is over
C17_Witness ==
    /\ fetch_pc = "done"
    /\ chunk_size >= 2
    /\ Len(input_csv) = 2 * chunk_size
    /\ Len(output_csv) = Len(input_csv) + 1

(***************************************************************************)
(* QueryCrossrefAPI_withCSVofQIDnDOI_forJournalName.py                     *)
(*                                                                         *)
(* DOIJournalExtractor.  Rows and batch positions count from 1 (Python     *)
(* counts them from 0).                                                    *)
(***************************************************************************)
MaxDois == 3
MaxBatchSize == 2
MaxWorkers == 2
MaxWriters == 3

\* the NaN pandas reads for an empty cell; str(NaN) is "nan"
NaN == [type |-> "float", str |-> <<110,97,110>>]

\* pd.isna(v) (line 94)
isna(v) == v.type \in {"float", "NoneType"}

\* a local variable that holds no value yet
Unset == [type |-> "unset", str |-> <<>>]

RECURSIVE IntStr(_)
\* str(n) of an int n >= 0
IntStr(n) == IF n < 10 THEN <<48 + n>> ELSE IntStr(n \div 10) \o <<48 + (n % 10)>>

\* what self.session.get(url, timeout=10) and the reading of its body do:
\* a response with a status code and, for 200, the container-title list
\* and the publisher of the message ...
Response(status, titles, publisher) ==
    [raised |-> "", message |-> <<>>, status_code |-> status,
     container_title |-> titles, publisher |-> publisher]

\* ... or an exception of a class, raised inside the try of line 54
Failure(class, message) ==
    [raised |-> class, message |-> message, status_code |-> 0,
     container_title |-> <<>>, publisher |-> None]

\* "https://api.crossref.org/works/" (line 52)
WorksUrl == <<104,116,116,112,115,58,47,47,97,112,105,46,99,114,111,115,115,114,101,102,46,111,114,103,47,119,111,114,107,115,47>>

\* Crossref: the answer to a request, by the DOI of the url
session_get(url) ==
    CASE url = WorksUrl \o <<49,48,46,49,47,97>> ->     \* 10.1/a: "Nature"
            Response(200, <<<<78,97,116,117,114,101>>>>, Str(<<69,108,115,101,118,105,101,114>>))
      [] url = WorksUrl \o <<49,48,46,49,47,98>> ->     \* 10.1/b: publisher "Elsevier" alone
            Response(200, <<>>, Str(<<69,108,115,101,118,105,101,114>>))
      [] url = WorksUrl \o <<49,48,46,49,47,99>> ->     \* 10.1/c: neither
            Response(200, <<>>, None)
      [] url = WorksUrl \o <<49,48,46,49,47,101>> ->    \* 10.1/e: server error
            Response(500, <<>>, None)
      [] url = WorksUrl \o <<49,48,46,49,47,102>> ->    \* 10.1/f: "timed out"
            Failure("RequestException", <<116,105,109,101,100,32,111,117,116>>)
      [] url = WorksUrl \o <<49,48,46,49,47,103>> ->    \* 10.1/g: a message that is a list
            Failure("AttributeError", <<39,108,105,115,116,39,32,111,98,106,101,99,116,32,104,97,115,32,110,111,32,97,116,116,114,105,98,117,116,101,32,39,103,101,116,39>>)
      [] OTHER -> Response(404, <<>>, None)             \* any other DOI is unknown

\* lines 46-49: the URL prefix of the DOI is removed
CleanDoi(doi) ==
    IF StartsWith(doi, <<104,116,116,112,115,58,47,47,100,111,105,46,111,114,103,47>>)
    THEN replace(doi, <<104,116,116,112,115,58,47,47,100,111,105,46,111,114,103,47>>, <<>>)
    ELSE IF StartsWith(doi, <<104,116,116,112,58,47,47,100,120,46,100,111,105,46,111,114,103,47>>)
    THEN replace(doi, <<104,116,116,112,58,47,47,100,120,46,100,111,105,46,111,114,103,47>>, <<>>)
    ELSE doi

\* get_journal_name_from_doi(doi) (lines 35-79): the value it returns
get_journal_name_from_doi(doi) ==
    LET response == session_get(WorksUrl \o CleanDoi(doi))
    IN  IF response.raised = "RequestException"
        THEN Str(<<82,101,113,117,101,115,116,32,102,97,105,108,101,100,58,32>> \o response.message)
        ELSE IF response.raised # ""
        THEN Str(<<69,114,114,111,114,58,32>> \o response.message)
        ELSE IF response.status_code = 200
        THEN IF response.container_title # <<>>
             THEN Str(response.container_title[1])
             ELSE IF Truthy(response.publisher) THEN response.publisher ELSE None
        ELSE IF response.status_code = 404
        THEN Str(<<68,79,73,32,110,111,116,32,102,111,117,110,100>>)
        ELSE Str(<<69,114,114,111,114,58,32>> \o IntStr(response.status_code))

\* Batches with batches of batch_size + 1 rows: neighbours overlap
Batches_Overlap(table, size) ==
    [b \in 1..((Len(table) + size - 1) \div size) |->
        LET first == (b - 1) * size + 1
            last == IF first + size < Len(table) THEN first + size ELSE Len(table)
        IN  [n \in 1..(last - first + 1) |->
                [idx |-> first + n - 1, doi |-> table[first + n - 1][2]]]]

\* batches of lines 146-149: the rows, batch_size at a time, each with its
\* DOI (column 2)
Batches(table, size) ==
    [b \in 1..((Len(table) + size - 1) \div size) |->
        LET first == (b - 1) * size + 1
            last == IF first + size - 1 < Len(table) THEN first + size - 1 ELSE Len(table)
        IN  [n \in 1..(last - first + 1) |->
                [idx |-> first + n - 1, doi |-> table[first + n - 1][2]]]]

\* the line write_result_to_file writes (line 117)
Line(row_data) ==
    join(<<9>>, [n \in 1..Len(row_data) |-> row_data[n].str]) \o <<10>>

\* the test of line 174
Success(journal_name) ==
    /\ Truthy(journal_name)
    /\ ~StartsWith(journal_name.str, <<69,114,114,111,114>>)
    /\ journal_name.str # <<68,79,73,32,110,111,116,32,102,111,117,110,100>>

\* the DOI cells of the input: empty, and DOIs for each answer of Crossref
\* (10.1/d is unknown to it), two of them as URLs
DoiColumn == <<
    NaN,
    Str(<<49,48,46,49,47,97>>),
    Str(<<104,116,116,112,115,58,47,47,100,111,105,46,111,114,103,47,49,48,46,49,47,98>>),
    Str(<<104,116,116,112,58,47,47,100,120,46,100,111,105,46,111,114,103,47,49,48,46,49,47,99>>),
    Str(<<49,48,46,49,47,100>>),
    Str(<<49,48,46,49,47,101>>),
    Str(<<49,48,46,49,47,102>>),
    Str(<<49,48,46,49,47,103>>) >>

\* the input tables: at least one and at most MaxDois rows of two columns,
\* "Q1", "Q2", ... and consecutive cells of DoiColumn from any of them on
Tables ==
    {[j \in 1..n |-> <<Str(Qid(j)), DoiColumn[((from + j - 2) % Len(DoiColumn)) + 1]>>] :
        n \in 1..MaxDois, from \in 1..Len(DoiColumn)}

\* the thread that runs process_tsv_file_streaming
MainThread == 0

\* the frame of a call of write_result_to_file: "enter" before line 115,
\* "locked" with the lock held, "written" after line 117, "returned"
Call(pc_, row_data) == [pc |-> pc_, row_data |-> row_data]

\* no call
NoCall == Call("out", <<>>)

\* lines 130-157 have run: the table is read, the output file cleared, the
\* batches built and submitted
InitStreaming ==
    /\ df \in Tables
    /\ batch_size \in 1..MaxBatchSize
    /\ max_workers \in 1..MaxWorkers
    /\ batches = Batches(df, batch_size)
    /\ futures = [b \in 1..Len(batches) |->
                     [state |-> "pending", i |-> 1, journal_name |-> Unset,
                      results |-> <<>>]]
    /\ yielded = {}
    /\ batch_results = <<>>
    /\ result_idx = 1
    /\ processed_count = 0
    /\ successful_count = 0
    /\ main_pc = "wait"
    /\ calls = [t \in {MainThread} |-> NoCall]
    /\ write_lock = FALSE
    /\ output_file = <<>>
    /\ ThesisOff
    /\ LanguageOff

\* a worker thread of the executor takes the next batch of the queue
StartBatch(b) ==
    /\ futures[b].state = "pending"
    /\ \A c \in 1..(b - 1) : futures[c].state # "pending"
    /\ Cardinality({c \in DOMAIN futures : futures[c].state = "running"}) < max_workers
    /\ futures' = [futures EXCEPT ![b].state = "running"]
    /\ UNCHANGED <<df, batch_size, max_workers, batches, yielded, batch_results,
                   result_idx, processed_count, successful_count, main_pc,
                   calls, write_lock, output_file>>
    /\ UNCHANGED <<thesis_vars, language_vars>>

\* lines 93-97 of process_doi_batch for the next DOI of the batch
LookUp(b) ==
    /\ futures[b].state = "running"
    /\ futures[b].i <= Len(batches[b])
    /\ futures[b].journal_name = Unset
    /\ LET doi == batches[b][futures[b].i].doi
       IN  futures' = [futures EXCEPT ![b].journal_name =
                          IF isna(doi) \/ doi = Str(<<>>) THEN Str(<<>>)
                          ELSE get_journal_name_from_doi(doi.str)]
    /\ UNCHANGED <<df, batch_size, max_workers, batches, yielded, batch_results,
                   result_idx, processed_count, successful_count, main_pc,
                   calls, write_lock, output_file>>
    /\ UNCHANGED <<thesis_vars, language_vars>>

\* lines 98-103: the name, or '' for none, is appended to results
AppendResult(b) ==
    /\ futures[b].state = "running"
    /\ futures[b].i <= Len(batches[b])
    /\ futures[b].journal_name # Unset
    /\ LET journal_name == IF Truthy(futures[b].journal_name)
                           THEN futures[b].journal_name ELSE Str(<<>>)
       IN  futures' = [futures EXCEPT
                          ![b].results = Append(@, [idx |-> batches[b][futures[b].i].idx,
                                                    journal_name |-> journal_name]),
                          ![b].journal_name = Unset,
                          ![b].i = @ + 1]
    /\ UNCHANGED <<df, batch_size, max_workers, batches, yielded, batch_results,
                   result_idx, processed_count, successful_count, main_pc,
                   calls, write_lock, output_file>>
    /\ UNCHANGED <<thesis_vars, language_vars>>

\* line 105: process_doi_batch returns, the future is complete
ReturnBatch(b) ==
    /\ futures[b].state = "running"
    /\ futures[b].i > Len(batches[b])
    /\ futures' = [futures EXCEPT ![b].state = "finished"]
    /\ UNCHANGED <<df, batch_size, max_workers, batches, yielded, batch_results,
                   result_idx, processed_count, successful_count, main_pc,
                   calls, write_lock, output_file>>
    /\ UNCHANGED <<thesis_vars, language_vars>>

\* lines 160-161: as_completed yields a complete future, any of them
NextFuture(b) ==
    /\ main_pc = "wait"
    /\ futures[b].state = "finished"
    /\ b \notin yielded
    /\ yielded' = yielded \cup {b}
    /\ batch_results' = futures[b].results
    /\ result_idx' = 1
    /\ main_pc' = "row"
    /\ UNCHANGED <<df, batch_size, max_workers, batches, futures,
                   processed_count, successful_count, calls, write_lock,
                   output_file>>
    /\ UNCHANGED <<thesis_vars, language_vars>>

\* lines 164-170: the row of the next result is built and
\* write_result_to_file is called with it
TakeRow ==
    /\ main_pc = "row"
    /\ result_idx <= Len(batch_results)
    /\ calls' = [calls EXCEPT ![MainThread] =
                    Call("enter", Append(df[batch_results[result_idx].idx],
                                         batch_results[result_idx].journal_name))]
    /\ main_pc' = "write"
    /\ UNCHANGED <<df, batch_size, max_workers, batches, futures, yielded,
                   batch_results, result_idx, processed_count,
                   successful_count, write_lock, output_file>>
    /\ UNCHANGED <<thesis_vars, language_vars>>

\* LockIsFree of a lock that never blocks
LockIsFree_Always(lock) == TRUE

\* threading.Lock: acquire goes on when the lock is not held
LockIsFree(lock) == ~lock

\* line 115: with self.write_lock, entered
AcquireLock(t) ==
    /\ calls[t].pc = "enter"
    /\ LockIsFree(write_lock)
    /\ write_lock' = TRUE
    /\ calls' = [calls EXCEPT ![t].pc = "locked"]
    /\ UNCHANGED <<df, batch_size, max_workers, batches, futures, yielded,
                   batch_results, result_idx, processed_count,
                   successful_count, main_pc, output_file>>
    /\ UNCHANGED <<thesis_vars, language_vars>>

\* lines 116-117: the file is opened for appending, the line written, the
\* file closed
WriteLine(t) ==
    /\ calls[t].pc = "locked"
    /\ output_file' = output_file \o Line(calls[t].row_data)
    /\ calls' = [calls EXCEPT ![t].pc = "written"]
    /\ UNCHANGED <<df, batch_size, max_workers, batches, futures, yielded,
                   batch_results, result_idx, processed_count,
                   successful_count, main_pc, write_lock>>
    /\ UNCHANGED <<thesis_vars, language_vars>>

\* the with block of line 115 is left: the lock is released, the call
\* returns
ReleaseLock(t) ==
    /\ calls[t].pc = "written"
    /\ write_lock' = FALSE
    /\ calls' = [calls EXCEPT ![t].pc = "returned"]
    /\ UNCHANGED <<df, batch_size, max_workers, batches, futures, yielded,
                   batch_results, result_idx, processed_count,
                   successful_count, main_pc, output_file>>
    /\ UNCHANGED <<thesis_vars, language_vars>>

\* lines 173-175: the counters, after the call has returned
CountRow ==
    /\ main_pc = "write"
    /\ calls[MainThread].pc = "returned"
    /\ processed_count' = processed_count + 1
    /\ successful_count' =
          IF Success(batch_results[result_idx].journal_name)
          THEN successful_count + 1 ELSE successful_count
    /\ calls' = [calls EXCEPT ![MainThread] = NoCall]
    /\ result_idx' = result_idx + 1
    /\ main_pc' = "row"
    /\ UNCHANGED <<df, batch_size, max_workers, batches, futures, yielded,
                   batch_results, write_lock, output_file>>
    /\ UNCHANGED <<thesis_vars, language_vars>>

\* the loop of line 164 is over
EndBatch ==
    /\ main_pc = "row"
    /\ result_idx > Len(batch_results)
    /\ main_pc' = "wait"
    /\ UNCHANGED <<df, batch_size, max_workers, batches, futures, yielded,
                   batch_results, result_idx, processed_count,
                   successful_count, calls, write_lock, output_file>>
    /\ UNCHANGED <<thesis_vars, language_vars>>

\* every future has been yielded: lines 182-185
EndStreaming ==
    /\ main_pc = "wait"
    /\ yielded = DOMAIN futures
    /\ main_pc' = "done"
    /\ UNCHANGED <<df, batch_size, max_workers, batches, futures, yielded,
                   batch_results, result_idx, processed_count,
                   successful_count, calls, write_lock, output_file>>
    /\ UNCHANGED <<thesis_vars, language_vars>>

NextStreaming ==
    \/ \E b \in DOMAIN futures : StartBatch(b)
    \/ \E b \in DOMAIN futures : LookUp(b)
    \/ \E b \in DOMAIN futures : AppendResult(b)
    \/ \E b \in DOMAIN futures : ReturnBatch(b)
    \/ \E b \in DOMAIN futures : NextFuture(b)
    \/ TakeRow
    \/ \E t \in DOMAIN calls : AcquireLock(t)
    \/ \E t \in DOMAIN calls : WriteLine(t)
    \/ \E t \in DOMAIN calls : ReleaseLock(t)
    \/ CountRow
    \/ EndBatch
    \/ EndStreaming

SpecStreaming == InitStreaming /\ [][NextStreaming]_vars

(***************************************************************************)
(* write_result_to_file called by several threads at once: at most         *)
(* MaxWriters threads, each with one call and a row of its own.            *)
(***************************************************************************)
\* the rows the threads write: "Q1", "10.1/a", "Nature" and "Q2", NaN, ""
RowDatas == {
    <<Str(Qid(1)), Str(<<49,48,46,49,47,97>>), Str(<<78,97,116,117,114,101>>)>>,
    <<Str(Qid(2)), NaN, Str(<<>>)>> }

\* every thread is about to run line 115
InitWriters ==
    /\ \E n \in 1..MaxWriters :
          calls \in [1..n -> {Call("enter", row_data) : row_data \in RowDatas}]
    /\ write_lock = FALSE
    /\ output_file = <<>>
    /\ df = <<>>
    /\ batch_size = 50
    /\ max_workers = 10
    /\ batches = <<>>
    /\ futures = <<>>
    /\ yielded = {}
    /\ batch_results = <<>>
    /\ result_idx = 1
    /\ processed_count = 0
    /\ successful_count = 0
    /\ main_pc = "off"
    /\ ThesisOff
    /\ LanguageOff

NextWriters ==
    \/ \E t \in DOMAIN calls : AcquireLock(t)
    \/ \E t \in DOMAIN calls : WriteLine(t)
    \/ \E t \in DOMAIN calls : ReleaseLock(t)

SpecWriters == InitWriters /\ [][NextWriters]_vars

(***************************************************************************)
(* Vocabulary of the DOIJournalExtractor properties                        *)
(***************************************************************************)
\* the cells of a row, joined by tabs
TabJoined(cells) == join(<<9>>, [n \in 1..Len(cells) |-> cells[n].str])

\* the lines of the output file
OutputLines == readlines(output_file)

\* line is row j of the table with one more cell
C18_IsRow(line, j) ==
    LET original == TabJoined(df[j]) \o <<9>>
    IN  /\ StartsWith(line, original)
        /\ \A n \in (Len(original) + 1)..Len(line) : line[n] # 9

(***************************************************************************)
(* C18: when process_tsv_file_streaming is over, whatever the number of    *)
(* rows, batch_size >= 1, max_workers >= 1 and the order in which the      *)
(* batches complete, every row of the input has been written exactly once, *)
(* as its original cells and one journal cell, and processed_count is the  *)
(* number of input rows; only the order of the rows may differ.            *)
(***************************************************************************)
C18_EveryRowWrittenOnce ==
    main_pc = "done" =>
        /\ processed_count = Len(df)
        /\ Len(OutputLines) = Len(df)
        /\ \A j \in 1..Len(df) :
              Cardinality({n \in 1..Len(OutputLines) :
                              C18_IsRow(OutputLines[n], j)}) = 1

\* a run over three rows in several batches with two workers is over, and
\* the first line of the output is the last row of the input
C18_Witness ==
    /\ main_pc = "done"
    /\ Len(df) = 3
    /\ Len(batches) >= 2
    /\ max_workers = 2
    /\ C18_IsRow(OutputLines[1], 3)

\* the threads inside the section of lines 116-117
C19_InSection == {t \in DOMAIN calls : calls[t].pc \in {"locked", "written"}}

\* the threads whose line is written
C19_Wrote == {t \in DOMAIN calls : calls[t].pc \in {"written", "returned"}}

(***************************************************************************)
(* C19: write_result_to_file is thread-safe: never are two threads inside  *)
(* its open-append-write section, whichever threads call it at once, and   *)
(* every call appends one complete line that no other line cuts.           *)
(***************************************************************************)
C19_ThreadSafeWrite ==
    /\ Cardinality(C19_InSection) <= 1
    /\ output_file # <<>> => output_file[Len(output_file)] = 10
    /\ Len(OutputLines) = Cardinality(C19_Wrote)
    /\ \A t \in C19_Wrote :
          Cardinality({n \in 1..Len(OutputLines) :
                          OutputLines[n] = TabJoined(calls[t].row_data)})
            = Cardinality({u \in C19_Wrote : calls[u].row_data = calls[t].row_data})

\* a thread is inside the section after another has left it, and a third
\* waits for the lock
C19_Witness ==
    \E t, u, v \in DOMAIN calls :
        /\ calls[t].pc = "written"
        /\ calls[u].pc = "returned"
        /\ calls[v].pc = "enter"
        /\ calls[t].row_data # calls[u].row_data
        /\ write_lock

\* Crossref has no journal for the DOI: an exception, a status other than
\* 200, or a message with no container-title and no publisher
C20_NoJournal(doi) ==
    LET response == session_get(WorksUrl \o CleanDoi(doi))
    IN  \/ response.raised # ""
        \/ response.status_code # 200
        \/ response.container_title = <<>> /\ ~Truthy(response.publisher)

(***************************************************************************)
(* C20: get_journal_name_from_doi returns a journal name or None: when no  *)
(* journal is found (404, another status than 200, an exception of the     *)
(* request, 200 with neither container-title nor publisher) the value it   *)
(* returns is None, never a non-empty string.                              *)
(***************************************************************************)
C20_NoneWhenNoJournalFound ==
    \A b \in DOMAIN futures :
        LET doi == batches[b][futures[b].i].doi
        IN  (/\ futures[b].state = "running"
             /\ futures[b].i <= Len(batches[b])
             /\ futures[b].journal_name # Unset
             /\ ~isna(doi)
             /\ C20_NoJournal(doi.str))
                => futures[b].journal_name = None

\* the lookup of row j returned a journal or publisher name: the row has a
\* DOI and Crossref has a journal for it
C21_NameFound(j) ==
    /\ ~isna(df[j][2])
    /\ df[j][2] # Str(<<>>)
    /\ ~C20_NoJournal(df[j][2].str)

(***************************************************************************)
(* C21: successful_count is incremented for a row only if the lookup of    *)
(* that row returned a journal or publisher name: never for a row whose    *)
(* lookup ended in a failure (DOI not found, HTTP error status, request    *)
(* exception, empty DOI).                                                  *)
(***************************************************************************)
C21_SuccessCountsNamesOnly ==
    [][successful_count' # successful_count =>
          /\ successful_count' = successful_count + 1
          /\ C21_NameFound(batch_results[result_idx].idx)]_vars

\* the line starts with a literal of one of the two prefix lists
C22_Matches(line) ==
    \/ \E n \in 1..Len(prefixesMA) : StartsWith(line, prefixesMA[n])
    \/ \E n \in 1..Len(prefixesPHD) : StartsWith(line, prefixesPHD[n])

(***************************************************************************)
(* C22: the thesis-type canonicalizer is idempotent and keeps the shape:   *)
(* neither canonical string starts with a literal of either prefix list,   *)
(* applying the canonicalizer to its own output changes nothing, and one   *)
(* application keeps the number of records, the number of lines of every   *)
(* record and the order of the lines: only lines that match a literal      *)
(* change, into a canonical string.                                        *)
(***************************************************************************)
C22_CanonicalizerIdempotentAndShapePreserving ==
    Done =>
        /\ ~C22_Matches(CanonicalMA)
        /\ ~C22_Matches(CanonicalPHD)
        /\ Len(final_records) = Len(processed_records)
        /\ \A i \in 1..Len(final_records) :
              /\ CanonRecord(final_records[i]) = final_records[i]
              /\ Len(final_records[i]) = Len(processed_records[i])
              /\ \A n \in 1..Len(final_records[i]) :
                    IF C22_Matches(processed_records[i][n])
                    THEN final_records[i][n] \in {CanonicalMA, CanonicalPHD}
                    ELSE final_records[i][n] = processed_records[i][n]

\* a record with a doctoral line that was rewritten, between lines that
\* were not, is in the output
C22_Witness ==
    /\ Done
    /\ \E i \in 1..Len(final_records) :
          \E n \in 2..(Len(final_records[i]) - 1) :
              /\ final_records[i][n] = CanonicalPHD
              /\ processed_records[i][n] # CanonicalPHD
              /\ final_records[i][n - 1] = processed_records[i][n - 1]
              /\ Len(final_records[i]) >= 5

=============================================================================
